---- MODULE Spec2Model ----
(***************************************************************************)
(* Model of verify_template (src/main.py): one POST /verify-template       *)
(* request.  The handler fetches the template, parses it, probes every     *)
(* absolute anchor (global link validator), probes the footer's anchors    *)
(* until one is alive (footer validator), then combines the checks into    *)
(* one verdict.  The network is the environment: the outcome of each call  *)
(* is chosen nondeterministically when the call returns.                   *)
(*                                                                         *)
(* A network call is blocking; it is modelled as two steps (issue, return) *)
(* so that the calls outstanding at any moment can be counted.  log holds  *)
(* one entry per call issued, in issue order; the entry's outcome is       *)
(* Pending until the call has returned.                                    *)
(***************************************************************************)
EXTENDS Integers, Sequences, FiniteSets

VARIABLES
    doc,                  \* the parsed document served at the request's URL
    pc,                   \* position in verify_template
    i,                    \* index (in doc.anchors) of the current loop's anchor
    broken_links,         \* main.py:48
    footer_link_valid,    \* main.py:62
    footer_address_found, \* main.py:63
    log,                  \* the network calls issued so far, in order
    response              \* what the handler returned or raised

vars == <<doc, pc, i, broken_links, footer_link_valid, footer_address_found,
          log, response>>

----------------------------------------------------------------------------
(* Bounds of the model *)

MaxAnchors == 2          \* anchors with an href in a document
MaxImgs == 2             \* img elements in a document (SpecRatio)
MaxImgMarkup == 8        \* longest serialized img element (SpecRatio)
MaxTextLen == 81         \* longest extracted text (SpecRatio)

(* Program constants *)

FetchOkStatus == 200     \* main.py:26
BrokenFrom == 400        \* main.py:55 and main.py:73
MinKeywordLen == 4       \* main.py:14, len("test"), the shortest keyword
MinAddressLen == 13      \* main.py:20, shortest text ADDRESS_REGEX matches
MinImgMarkup == 6        \* main.py:38, len(str(img)) of a bare <img/>

----------------------------------------------------------------------------
(* Strings the handler inspects are sequences of characters. *)

HttpPrefix == <<"h", "t", "t", "p", ":", "/", "/">>
HttpsPrefix == <<"h", "t", "t", "p", "s", ":", "/", "/">>

\* str.startswith
StartsWith(s, p) == Len(s) >= Len(p) /\ SubSeq(s, 1, Len(p)) = p

\* IsAbsolute without the https test
IsAbsoluteHttpOnly(href) == StartsWith(href, HttpPrefix)

\* main.py:52 and main.py:70
IsAbsolute(href) == StartsWith(href, HttpPrefix) \/ StartsWith(href, HttpsPrefix)

\* the hrefs a document's anchors may carry: two absolute, one relative
Hrefs ==
    { HttpPrefix \o <<"a">>,
      HttpsPrefix \o <<"b">>,
      <<"/", "c">> }

RequestUrl == HttpsPrefix \o <<"t">>

----------------------------------------------------------------------------
(* Outcomes of a network call *)

Pending == [kind |-> "pending", code |-> 0]
Status(c) == [kind |-> "status", code |-> c]
\* requests.RequestException and its subclasses (timeout, DNS failure,
\* connection error, TLS error, InvalidURL, ...)
RequestException == [kind |-> "RequestException", code |-> 0]
\* any exception that is not a requests.RequestException
OtherException == [kind |-> "OtherException", code |-> 0]

FetchStatuses == {200, 204, 404}
ProbeStatuses == {200, 400}

FetchOutcomes ==
    {Status(c) : c \in FetchStatuses} \cup {RequestException, OtherException}
ProbeOutcomes ==
    {Status(c) : c \in ProbeStatuses} \cup {RequestException, OtherException}

----------------------------------------------------------------------------
(* The parsed document (BeautifulSoup view of resp.text).                  *)
(*   text_len   len(text_content), main.py:37                              *)
(*   is_test    whether text_content contains a TEST_KEYWORDS entry        *)
(*   imgs       len(str(img)) of each img element, in document order       *)
(*   anchors    the href of each <a href=...>, in document order           *)
(*   footer     the first <footer>: the anchors lo..hi are its             *)
(*              descendants (a subtree is contiguous in document order),   *)
(*              address is whether ADDRESS_REGEX matches its text          *)

SeqsUpTo(S, n) == UNION {[1..k -> S] : k \in 0..n}

NoFooter == [present |-> FALSE, lo |-> 1, hi |-> 0, address |-> FALSE]

Footers(n) ==
    {NoFooter} \cup
    { [present |-> TRUE, lo |-> l, hi |-> h, address |-> a] :
        l \in 1..(n + 1), h \in 0..n, a \in BOOLEAN }

\* A keyword needs MinKeywordLen characters of text, an address
\* MinAddressLen; the footer's anchors are anchors of the document.
WellFormedDoc(d) ==
    /\ d.is_test => d.text_len >= MinKeywordLen
    /\ d.footer.address => d.text_len >= MinAddressLen
    /\ d.footer.hi <= Len(d.anchors)
    /\ \/ d.footer.lo <= d.footer.hi
       \/ d.footer.lo = 1 /\ d.footer.hi = 0

DocsOf(textLens, tests, imgSeqs, anchorSeqs) ==
    { d \in [text_len : textLens, is_test : tests, imgs : imgSeqs,
             anchors : anchorSeqs, footer : Footers(MaxAnchors)] :
        WellFormedDoc(d) }

\* Documents of Spec: every anchor layout, one minimal image, and a text
\* that is empty, balanced against the image, or too long for it.
Docs ==
    DocsOf({0, MinAddressLen, 10 * MinImgMarkup + 1}, BOOLEAN,
           {<<MinImgMarkup>>}, SeqsUpTo(Hrefs, MaxAnchors))

\* Documents of SpecRatio: every text and image size, a relative anchor
\* followed by an absolute one.
RatioDocs ==
    DocsOf(0..MaxTextLen, {FALSE},
           SeqsUpTo(MinImgMarkup..MaxImgMarkup, MaxImgs),
           {<< <<"/", "c">>, HttpPrefix \o <<"a">> >>})

----------------------------------------------------------------------------
(* Heuristics that need no network *)

RECURSIVE SumLens(_)
\* sum(len(str(img)) for img in soup.find_all("img")), main.py:38
SumLens(s) == IF s = <<>> THEN 0 ELSE Head(s) + SumLens(Tail(s))

total_text_len(d) == d.text_len
total_img_len(d) == SumLens(d.imgs)

\* A float is modelled as the exact fraction num/den; den = 0 is +inf.
\* For lengths below 2^52 the correctly rounded quotient compares with the
\* literals 0.1 and 2.0 as the exact quotient compares with 1/10 and 2.
Inf == [num |-> 1, den |-> 0]
Frac(n, d) == [num |-> n, den |-> d]

\* a <= b on non-negative fractions and +inf
Leq(a, b) == a.num * b.den <= b.num * a.den

\* main.py:41-44
image_text_ratio(d) ==
    IF total_text_len(d) = 0
    THEN Inf
    ELSE Frac(total_img_len(d), total_text_len(d))

RatioLow == Frac(1, 10)
RatioHigh == Frac(2, 1)

\* the balance test with the upper end left out
image_text_ratio_below(r) == Leq(RatioLow, r) /\ ~Leq(RatioHigh, r)

\* main.py:93:  0.1 <= image_text_ratio <= 2.0
image_text_ratio_ok(r) == Leq(RatioLow, r) /\ Leq(r, RatioHigh)

\* main.py:34
is_test_template(d) == d.is_test

\* IsBroken without the except clause's append
IsBrokenStatusOnly(o) == o.kind = "status" /\ o.code >= BrokenFrom

\* main.py:55, main.py:57: the global validator's test of a returned probe
IsBroken(o) ==
    \/ o.kind = "status" /\ o.code >= BrokenFrom
    \/ o.kind = "RequestException"

\* main.py:73: the footer validator's test of a returned probe
IsAlive(o) == o.kind = "status" /\ o.code < BrokenFrom

\* main.py:53-58: what the inner try lets through
EscapesGlobalProbe(o) == o.kind = "OtherException"

----------------------------------------------------------------------------
(* The verdict combiner, main.py:103-118 *)

MsgTest == "The template appears to be a test/dummy template."
MsgLinks == "One or more clickable links are broken."
MsgFooter ==
    "Footer is missing a valid clickable website link or full company address."
MsgRatio == "Image to text ratio is not balanced."
MsgPass == "Template passed all basic standard checks."

\* main.py:90-98
Checks(d, broken, flv, faf) ==
    [ is_test_template |-> is_test_template(d),
      image_text_ratio |-> image_text_ratio(d),
      image_text_ratio_ok |-> image_text_ratio_ok(image_text_ratio(d)),
      broken_links |-> broken,
      all_links_valid |-> Len(broken) = 0,
      footer_link_valid |-> flv,
      footer_address_found |-> faf ]

\* Combine with the first two rules exchanged
CombineLinksFirst(test, checks, flv, faf) ==
    IF ~checks.all_links_valid
    THEN [verification |-> "fail", message |-> MsgLinks]
    ELSE IF test
    THEN [verification |-> "fail", message |-> MsgTest]
    ELSE IF ~flv \/ ~faf
    THEN [verification |-> "fail", message |-> MsgFooter]
    ELSE IF ~checks.image_text_ratio_ok
    THEN [verification |-> "warning", message |-> MsgRatio]
    ELSE [verification |-> "pass", message |-> MsgPass]

\* Combine with the footer rule after the ratio rule
CombineRatioFirst(test, checks, flv, faf) ==
    IF test
    THEN [verification |-> "fail", message |-> MsgTest]
    ELSE IF ~checks.all_links_valid
    THEN [verification |-> "fail", message |-> MsgLinks]
    ELSE IF ~checks.image_text_ratio_ok
    THEN [verification |-> "warning", message |-> MsgRatio]
    ELSE IF ~flv \/ ~faf
    THEN [verification |-> "fail", message |-> MsgFooter]
    ELSE [verification |-> "pass", message |-> MsgPass]

\* main.py:104-118: the if/elif chain over the local is_test_template, the
\* result's all_links_valid, the locals footer_link_valid and
\* footer_address_found, and the result's image_text_ratio_ok
Combine(test, checks, flv, faf) ==
    IF test
    THEN [verification |-> "fail", message |-> MsgTest]
    ELSE IF ~checks.all_links_valid
    THEN [verification |-> "fail", message |-> MsgLinks]
    ELSE IF ~flv \/ ~faf
    THEN [verification |-> "fail", message |-> MsgFooter]
    ELSE IF ~checks.image_text_ratio_ok
    THEN [verification |-> "warning", message |-> MsgRatio]
    ELSE [verification |-> "pass", message |-> MsgPass]

\* main.py:87-120: the result returned (content_length and preview_snippet,
\* which copy the raw HTML, are left out)
Result(d, broken, flv, faf) ==
    LET checks == Checks(d, broken, flv, faf)
        v == Combine(is_test_template(d), checks, flv, faf)
    IN  [ kind |-> "result",
          status |-> "success",
          url |-> RequestUrl,
          checks |-> checks,
          verification |-> v.verification,
          message |-> v.message ]

\* main.py:27: raise HTTPException(400, "Unable to fetch URL, status code: N")
FetchStatusError(code) ==
    [ kind |-> "HTTPException", status_code |-> 400,
      detail |-> <<"Unable to fetch URL, status code: ", code>> ]

\* main.py:122-123: raise HTTPException(500, "Request failed: <e>")
FetchNetworkError(e) ==
    [ kind |-> "HTTPException", status_code |-> 500,
      detail |-> <<"Request failed: ", e.kind>> ]

\* an exception neither except clause catches leaves the handler
Unhandled(e) == [kind |-> "unhandled", exception |-> e.kind]

NoResponse == [kind |-> "none"]

----------------------------------------------------------------------------
(* The handler *)

Call(site, idx, href) ==
    [site |-> site, idx |-> idx, href |-> href, outcome |-> Pending]

\* the log with its last call returned
Returned(l, o) == [l EXCEPT ![Len(l)].outcome = o]

Outstanding == {k \in 1..Len(log) : log[k].outcome = Pending}

\* FetchOk accepting every 2xx status
FetchOkAny2xx(o) == o.kind = "status" /\ o.code >= 200 /\ o.code < 300

\* main.py:26
FetchOk(o) == o.kind = "status" /\ o.code = FetchOkStatus

\* a loop that tries the same anchor again
SameAnchor(k) == k

\* the index after anchor k in a loop over anchors
NextAnchor(k) == k + 1

\* main.py:61-67 and 83-85: where the handler goes once the global loop ends
AfterLinks(d) == IF d.footer.present THEN "footer" ELSE "verdict"

InitWith(docs) ==
    /\ doc \in docs
    /\ pc = "start"
    /\ i = 0
    /\ broken_links = <<>>
    /\ footer_link_valid = FALSE
    /\ footer_address_found = FALSE
    /\ log = <<>>
    /\ response = NoResponse

Init == InitWith(Docs)
InitRatio == InitWith(RatioDocs)

\* main.py:25: requests.get(data.url, timeout=10) is issued
FetchIssue ==
    /\ pc = "start"
    /\ log' = Append(log, Call("fetch", 0, RequestUrl))
    /\ pc' = "fetching"
    /\ UNCHANGED <<doc, i, broken_links, footer_link_valid,
                   footer_address_found, response>>

\* main.py:25-48: the fetch returned 200; the document is parsed, the text
\* and image heuristics are computed, the global loop starts
FetchSucceeds ==
    /\ pc = "fetching"
    /\ \E o \in FetchOutcomes :
        /\ FetchOk(o)
        /\ log' = Returned(log, o)
    /\ i' = 1
    /\ broken_links' = <<>>
    /\ pc' = "links"
    /\ UNCHANGED <<doc, footer_link_valid, footer_address_found, response>>

\* main.py:26-27, 122-123: any other status, or an exception
FetchFails ==
    /\ pc = "fetching"
    /\ \E o \in FetchOutcomes :
        /\ ~FetchOk(o)
        /\ log' = Returned(log, o)
        /\ response' =
             IF o.kind = "status" THEN FetchStatusError(o.code)
             ELSE IF o.kind = "RequestException" THEN FetchNetworkError(o)
             ELSE Unhandled(o)
    /\ pc' = "done"
    /\ UNCHANGED <<doc, i, broken_links, footer_link_valid,
                   footer_address_found>>

\* main.py:49-52: an anchor whose href is not absolute is passed over
LinkSkip ==
    /\ pc = "links"
    /\ i <= Len(doc.anchors)
    /\ ~IsAbsolute(doc.anchors[i])
    /\ i' = NextAnchor(i)
    /\ UNCHANGED <<doc, pc, broken_links, footer_link_valid,
                   footer_address_found, log, response>>

\* main.py:54: requests.head(href, ...) is issued for an absolute anchor
LinkProbeIssue ==
    /\ pc = "links"
    /\ i <= Len(doc.anchors)
    /\ IsAbsolute(doc.anchors[i])
    /\ log' = Append(log, Call("global", i, doc.anchors[i]))
    /\ pc' = "probing"
    /\ UNCHANGED <<doc, i, broken_links, footer_link_valid,
                   footer_address_found, response>>

\* main.py:54-58: the probe returned a status or raised a RequestException
LinkProbeReturns ==
    /\ pc = "probing"
    /\ \E o \in ProbeOutcomes :
        /\ ~EscapesGlobalProbe(o)
        /\ log' = Returned(log, o)
        /\ broken_links' =
             IF IsBroken(o) THEN Append(broken_links, doc.anchors[i])
             ELSE broken_links
    /\ i' = NextAnchor(i)
    /\ pc' = "links"
    /\ UNCHANGED <<doc, footer_link_valid, footer_address_found, response>>

\* main.py:54, 57, 122: the probe raised an exception that is not a
\* RequestException; neither except clause catches it
LinkProbeRaises ==
    /\ pc = "probing"
    /\ \E o \in ProbeOutcomes :
        /\ EscapesGlobalProbe(o)
        /\ log' = Returned(log, o)
        /\ response' = Unhandled(o)
    /\ pc' = "done"
    /\ UNCHANGED <<doc, i, broken_links, footer_link_valid,
                   footer_address_found>>

\* main.py:60-67, 83-85: the global loop is over; the footer is looked up
LinksDone ==
    /\ pc = "links"
    /\ i > Len(doc.anchors)
    /\ footer_link_valid' = FALSE
    /\ footer_address_found' = FALSE
    /\ pc' = AfterLinks(doc)
    /\ i' = doc.footer.lo
    /\ UNCHANGED <<doc, broken_links, log, response>>

\* main.py:68-70: a footer anchor whose href is not absolute is passed over
FooterSkip ==
    /\ pc = "footer"
    /\ i <= doc.footer.hi
    /\ ~IsAbsolute(doc.anchors[i])
    /\ i' = NextAnchor(i)
    /\ UNCHANGED <<doc, pc, broken_links, footer_link_valid,
                   footer_address_found, log, response>>

\* main.py:72: requests.head(href, ...) is issued for a footer anchor
FooterProbeIssue ==
    /\ pc = "footer"
    /\ i <= doc.footer.hi
    /\ IsAbsolute(doc.anchors[i])
    /\ log' = Append(log, Call("footer", i, doc.anchors[i]))
    /\ pc' = "footprobing"
    /\ UNCHANGED <<doc, i, broken_links, footer_link_valid,
                   footer_address_found, response>>

\* FooterProbeAlive without the break
FooterProbeAliveNoBreak ==
    /\ pc = "footprobing"
    /\ \E o \in ProbeOutcomes :
        /\ IsAlive(o)
        /\ log' = Returned(log, o)
    /\ footer_link_valid' = TRUE
    /\ i' = i + 1
    /\ pc' = "footer"
    /\ UNCHANGED <<doc, broken_links, footer_address_found, response>>

\* main.py:73-75: the probe is alive: the flag is set and the loop is left
\* (the bare except of main.py:76 lets no exception through)
FooterProbeAlive ==
    /\ pc = "footprobing"
    /\ \E o \in ProbeOutcomes :
        /\ IsAlive(o)
        /\ log' = Returned(log, o)
    /\ footer_link_valid' = TRUE
    /\ pc' = "address"
    /\ UNCHANGED <<doc, i, broken_links, footer_address_found, response>>

\* main.py:73, 76-77: the probe is dead, or raised: the loop goes on
FooterProbeNotAlive ==
    /\ pc = "footprobing"
    /\ \E o \in ProbeOutcomes :
        /\ ~IsAlive(o)
        /\ log' = Returned(log, o)
    /\ i' = NextAnchor(i)
    /\ pc' = "footer"
    /\ UNCHANGED <<doc, broken_links, footer_link_valid,
                   footer_address_found, response>>

\* main.py:68: no footer anchor is left
FooterLinksDone ==
    /\ pc = "footer"
    /\ i > doc.footer.hi
    /\ pc' = "address"
    /\ UNCHANGED <<doc, i, broken_links, footer_link_valid,
                   footer_address_found, log, response>>

\* main.py:78-81: the footer's text is matched against ADDRESS_REGEX
FooterAddress ==
    /\ pc = "address"
    /\ footer_address_found' =
         IF doc.footer.address THEN TRUE ELSE footer_address_found
    /\ pc' = "verdict"
    /\ UNCHANGED <<doc, i, broken_links, footer_link_valid, log, response>>

\* main.py:87-120: the result is built, the verdict combined, and returned
Verdict ==
    /\ pc = "verdict"
    /\ response' =
         Result(doc, broken_links, footer_link_valid, footer_address_found)
    /\ pc' = "done"
    /\ UNCHANGED <<doc, i, broken_links, footer_link_valid,
                   footer_address_found, log>>

Next ==
    \/ FetchIssue
    \/ FetchSucceeds
    \/ FetchFails
    \/ LinkSkip
    \/ LinkProbeIssue
    \/ LinkProbeReturns
    \/ LinkProbeRaises
    \/ LinksDone
    \/ FooterSkip
    \/ FooterProbeIssue
    \/ FooterProbeAlive
    \/ FooterProbeNotAlive
    \/ FooterLinksDone
    \/ FooterAddress
    \/ Verdict

Spec == Init /\ [][Next]_vars
SpecRatio == InitRatio /\ [][Next]_vars

----------------------------------------------------------------------------
(* Vocabulary of the properties *)

IsGlobalCall(e) == e.site = "global"
IsFooterCall(e) == e.site = "footer"
GlobalCalls == SelectSeq(log, IsGlobalCall)
FooterCalls == SelectSeq(log, IsFooterCall)

IdxOf(calls) == [k \in 1..Len(calls) |-> calls[k].idx]
HrefOf(calls) == [k \in 1..Len(calls) |-> calls[k].href]

\* an href that starts with "http://" or "https://"
HasHttpScheme(h) ==
    \E p \in {HttpPrefix, HttpsPrefix} :
        Len(h) >= Len(p) /\ \A k \in 1..Len(p) : h[k] = p[k]

RECURSIVE AbsoluteFrom(_, _, _)
\* the indices lo..hi of the anchors with an http(s) href, in document order
AbsoluteFrom(d, lo, hi) ==
    IF lo > hi THEN <<>>
    ELSE (IF HasHttpScheme(d.anchors[lo]) THEN <<lo>> ELSE <<>>)
         \o AbsoluteFrom(d, lo + 1, hi)

AbsoluteAnchors == AbsoluteFrom(doc, 1, Len(doc.anchors))
FooterAbsoluteAnchors == AbsoluteFrom(doc, doc.footer.lo, doc.footer.hi)

IsPrefixOf(s, t) == Len(s) <= Len(t) /\ SubSeq(t, 1, Len(s)) = s

\* probe results as the specification classifies them
Alive(o) == o.kind = "status" /\ o.code < 400
Dead(o) == o.kind = "status" /\ o.code >= 400
NetworkException(o) == o.kind = "RequestException"

Fetched == Len(log) >= 1 /\ log[1].outcome = Status(200)
Returns == response.kind = "result"
GlobalFinished ==
    pc \in {"footer", "footprobing", "address", "verdict"} \/ Returns
FooterFinished == pc \in {"address", "verdict"} \/ Returns

----------------------------------------------------------------------------
(* Properties *)

C3_BrokenLinks ==
    GlobalFinished =>
        LET g == GlobalCalls
            broken(e) == Dead(e.outcome) \/ NetworkException(e.outcome)
        IN  /\ IdxOf(g) = AbsoluteAnchors
            /\ \A k \in 1..Len(g) : g[k].href = doc.anchors[g[k].idx]
            /\ broken_links = HrefOf(SelectSeq(g, broken))
            /\ Returns =>
                 /\ response.checks.broken_links = broken_links
                 /\ response.checks.all_links_valid <=> broken_links = <<>>

\* the same href twice, a relative one nowhere: one occurrence broken by a
\* network exception, the other alive
C3_Witness ==
    /\ Returns
    /\ Len(doc.anchors) = 2
    /\ doc.anchors[1] = doc.anchors[2]
    /\ Len(GlobalCalls) = 2
    /\ Alive(GlobalCalls[1].outcome)
    /\ NetworkException(GlobalCalls[2].outcome)
    /\ broken_links = <<doc.anchors[2]>>

\* C4: the footer validator probes the footer's http(s) anchors in document
\* order; only its last probe can be alive; footer_link_valid says that
\* some footer probe was alive; when the scan is over and none was alive,
\* every http(s) anchor of the footer has been probed (none, if it has none).
C4_FirstAlive ==
    LET f == FooterCalls
    IN  /\ IsPrefixOf(IdxOf(f), FooterAbsoluteAnchors)
        /\ \A k \in 1..Len(f) : f[k].href = doc.anchors[f[k].idx]
        /\ \A k \in 1..(Len(f) - 1) : ~Alive(f[k].outcome)
        /\ footer_link_valid <=> \E k \in 1..Len(f) : Alive(f[k].outcome)
        /\ (FooterFinished /\ ~footer_link_valid) =>
             IdxOf(f) = FooterAbsoluteAnchors
        /\ Returns => response.checks.footer_link_valid = footer_link_valid

\* a footer with two http(s) anchors whose first probe was alive
C4_Witness ==
    /\ Returns
    /\ doc.footer.present
    /\ Len(FooterAbsoluteAnchors) = 2
    /\ Len(FooterCalls) = 1
    /\ footer_link_valid

\* C5 as stated: once the fetch has returned 200 the request ends with a
\* success result, whatever the probes raise.
C5_AlwaysResult == (Fetched /\ pc = "done") => Returns

\* C6: a fetch that returned a status other than 200, or raised, ends the
\* request at once: the fetch is the only call ever issued and no result is
\* returned; a status yields the 400 error whose detail carries that status,
\* a network failure the distinct 500 error that carries its cause.
C6_FetchFailure ==
    LET o == log[1].outcome
    IN  (Len(log) >= 1 /\ o # Pending /\ o # Status(200)) =>
            /\ pc = "done"
            /\ Len(log) = 1
            /\ ~Returns
            /\ o.kind = "status" =>
                 /\ response.kind = "HTTPException"
                 /\ response.status_code = 400
                 /\ response.detail =
                      <<"Unable to fetch URL, status code: ", o.code>>
            /\ o.kind = "RequestException" =>
                 /\ response.kind = "HTTPException"
                 /\ response.status_code = 500
                 /\ response.detail = <<"Request failed: ", o.kind>>
                 /\ \A c \in FetchStatuses : response # FetchStatusError(c)

\* a 2xx status other than 200, for a document with an http(s) anchor
C6_Witness ==
    /\ pc = "done"
    /\ log[1].outcome = Status(204)
    /\ AbsoluteAnchors # <<>>
    /\ response.kind = "HTTPException"

\* C7: image_text_ratio_ok is true exactly when the text length T is
\* positive and T <= 10*I and I <= 2*T, I the total image markup length;
\* with T = 0 the ratio is +inf, the flag is false and the verdict is not
\* pass.
C7_RatioOk ==
    Returns =>
        LET c == response.checks
            I == total_img_len(doc)
            T == doc.text_len
        IN  /\ c.image_text_ratio_ok <=> (T > 0 /\ T <= 10 * I /\ I <= 2 * T)
            /\ T = 0 =>
                 /\ c.image_text_ratio = Inf
                 /\ ~c.image_text_ratio_ok
                 /\ response.verification # "pass"
            /\ response.verification = "pass" => c.image_text_ratio_ok

\* images and no text
C7_Witness ==
    /\ Returns
    /\ doc.text_len = 0
    /\ doc.imgs # <<>>
    /\ response.checks.image_text_ratio = Inf
    /\ ~response.checks.image_text_ratio_ok

\* both ends of the interval, reached with the pass verdict
C7_EndsIncluded ==
    /\ Returns
    /\ response.verification = "pass"
    /\ \/ doc.text_len = 10 * total_img_len(doc)
       \/ total_img_len(doc) = 2 * doc.text_len

\* C8 as stated: in every request whose fetch succeeded the global validator
\* probes every occurrence of an http(s) anchor exactly once, whatever the
\* earlier probes returned or raised.
C8_EveryOccurrenceProbed ==
    (Fetched /\ pc = "done") => IdxOf(GlobalCalls) = AbsoluteAnchors

\* C9: at most one call is outstanding, and it is the last one issued; the
\* first call is the fetch, no other is; every global probe precedes every
\* footer probe; within a validator the anchors are probed in document
\* order, none twice.
C9_Sequential ==
    /\ Cardinality(Outstanding) <= 1
    /\ \A k \in Outstanding : k = Len(log)
    /\ \A k \in 1..Len(log) : (log[k].site = "fetch") <=> (k = 1)
    /\ \A a, b \in 1..Len(log) :
         a < b =>
            /\ ~(log[a].site = "footer" /\ log[b].site = "global")
            /\ log[a].site = log[b].site => log[a].idx < log[b].idx
    /\ Len(log) >= 2 => Fetched

\* a request with two global probes, then two footer probes
C9_Witness ==
    /\ Returns
    /\ Len(GlobalCalls) = 2
    /\ Len(FooterCalls) = 2

\* every URL probed more than once returned the same outcome each time
StableOutcomes ==
    \A a, b \in 1..Len(log) :
        log[a].href = log[b].href => log[a].outcome = log[b].outcome

\* C10: if every URL returned the same outcome each time it was probed, a
\* result with all_links_valid true and footer_link_valid false comes only
\* from a document whose footer is absent or has no http(s) anchor.
C10_FooterInGlobal ==
    ( /\ Returns
      /\ StableOutcomes
      /\ response.checks.all_links_valid
      /\ ~response.checks.footer_link_valid )
    => (~doc.footer.present \/ FooterAbsoluteAnchors = <<>>)

\* stable outcomes: all links valid, the footer's anchors all relative
C10_Witness ==
    /\ Returns
    /\ StableOutcomes
    /\ AbsoluteAnchors # <<>>
    /\ response.checks.all_links_valid
    /\ ~response.checks.footer_link_valid
    /\ doc.footer.present
    /\ doc.footer.lo <= doc.footer.hi

\* independent outcomes: a footer link alive in the global pass and not in
\* the footer pass gives the footer verdict with broken_links empty
C10_IndependentOutcomes ==
    /\ Returns
    /\ ~StableOutcomes
    /\ FooterAbsoluteAnchors # <<>>
    /\ response.checks.broken_links = <<>>
    /\ ~response.checks.footer_link_valid
    /\ response.verification = "fail"
    /\ response.message = MsgFooter

====
